---- MODULE Spec2Model ----
(***************************************************************************)
(* State-machine model of the ATRAC9 voice module of the NGS audio engine  *)
(* (vita3k/ngs/src/modules/atrac9.cpp): Module::on_state_change,           *)
(* Module::decode_more_data and Module::process, and the free function     *)
(* get_buffer_parameter, which is explored in a specification of its own   *)
(* (ParserSpec).                                                           *)
(*                                                                         *)
(* One voice is modelled.  Its parameter block (four chained buffer        *)
(* descriptors) is chosen in Init and stays fixed.  The decoder and the    *)
(* ModuleData helpers live outside atrac9.cpp; they are modelled from the  *)
(* interface description and kept in their own small definitions.          *)
(* decode_more_data is split into steps at the points where the locks are  *)
(* released or taken and where callbacks run, because those points are     *)
(* observable from outside.                                                *)
(***************************************************************************)
EXTENDS Integers, Sequences, FiniteSets, TLC

\* ------------------------------------------------------------------ bounds
\* Width, in bits, of the words of the code (32 there), narrowed to keep the
\* state space finite and small.
WordBits == 4
\* data.parent->rack->system->granularity: sample-frames per tick.
Granularity == 3
\* Number of ticks (calls of process) explored in one behaviour.
MaxTicks == 3
\* Number of failing decoder->send calls explored in one behaviour.
MaxFailures == 1
\* Number of on_state_change calls explored in one behaviour.
MaxStateChanges == 1

\* ------------------------------------------------- decoder (external part)
\* decoder->get(DecoderQuery::AT9_FRAMES_IN_SUPERFRAME)
FramesInSuperframe == 2
\* decoder->get(DecoderQuery::AT9_SAMPLE_PER_FRAME)
SamplesPerFrame == 1
\* decoder->get_es_size(): bytes of one encoded frame
get_es_size == 1
\* decoder->get(DecoderQuery::AT9_SUPERFRAME_SIZE)
SuperframeSize == get_es_size * FramesInSuperframe
\* decoder->get(DecoderQuery::AT9_SAMPLE_PER_SUPERFRAME)
SamplesPerSuperframe == SamplesPerFrame * FramesInSuperframe

\* --------------------------------------------------------------- integers
UMod == 2 ^ WordBits
U32(x) == x % UMod
\* static_cast<std::int32_t>(x)
ToInt32(x) == IF U32(x) >= UMod \div 2 THEN U32(x) - UMod ELSE U32(x)
Min(a, b) == IF a < b THEN a ELSE b

\* Number of buffer descriptors of a parameter block ("there are at most 4").
NumBuffers == 4
Slots == 0 .. (NumBuffers - 1)

\* ------------------------------------------------------------- callbacks
SCE_NGS_AT9_END_OF_DATA == "END_OF_DATA"
SCE_NGS_AT9_SWAPPED_BUFFER == "SWAPPED_BUFFER"
SCE_NGS_AT9_LOOPED_BUFFER == "LOOPED_BUFFER"
SCE_NGS_AT9_DECODE_ERROR == "DECODE_ERROR"

\* ---------------------------------------------------------------- samples
\* A sample-frame of the backlog: a decoded one is named by the buffer, the
\* byte offset of its frame and its index in the frame.
\* A zeroed sample-frame of the scratch buffer.
ZeroSample == << -1, 0, 0 >>
\* A sample-frame of silence added by fill_to_fit_granularity.
SilenceSample == << -3, 0, 0 >>
\* What a read past the end of the scratch buffer yields.
GarbageSample == << -2, 0, 0 >>
DecodedSample(buf, pos, i) == << buf, pos, i >>
IsSilent(s) == s \in { ZeroSample, SilenceSample }

VARIABLES
    params,         \* params->buffer_params: Slots -> descriptor
    state,          \* State (the SceNgsAT9States record plus the two internal counters)
    extra_storage,  \* data.extra_storage, in sample-frames
    product,        \* data.parent->products[0].data as an offset into extra_storage, or -1
    decoder,        \* the Module's decoder: built or not, and its error context
    scheduler_lock, \* scheduler_lock is held by this thread
    voice_lock,     \* voice_lock is held by this thread
    pc,             \* position in process / decode_more_data
    local,          \* locals of the running decode_more_data call
    cb_log,         \* callbacks invoked by the running / last decode_more_data call
    hist,           \* observation only: counters and the record of the last step
    request,        \* arguments of the get_buffer_parameter call: start_sample, num_samples, info
    parameter       \* the SkipBufferInfo that get_buffer_parameter fills

vars == << params, state, extra_storage, product, decoder, scheduler_lock,
           voice_lock, pc, local, cb_log, hist, request, parameter >>

\* --------------------------------------------------- get_buffer_parameter
\* Width, in bits, of the std::uint32_t words of get_buffer_parameter (32
\* there), narrowed; wide enough for the largest samples_per_superframe.
ParserBits == 16
ParserMod == 2 ^ ParserBits
P32(x) == x % ParserMod

\* The format word info is kept as its two halves: hi is bits 16-31, lo is
\* bits 0-15.
\* Line 36: (info & (0b1111 << 12)) >> 12.
sample_rate_index(info) == (info.lo \div 4096) % 16
\* Line 37: (info & (0b111 << 9)) >> 9.
block_rate_index(info) == (info.lo \div 512) % 8
\* Line 38: ((((info & 0xFF0000) >> 16) << 3) | ((info & (0b111 << 29)) >> 29)) + 1.
frame_bytes(info) == ((info.hi % 256) * 8 + ((info.hi \div 8192) % 8)) + 1
\* Line 39: (info & (0b11 << 27)) >> 27.
superframe_index(info) == (info.hi \div 2048) % 4

\* Lines 42-43.
frame_per_superframe(info) == 2 ^ superframe_index(info)
bytes_per_superframe(info) == P32(frame_bytes(info) * frame_per_superframe(info))

\* Lines 46-48.
sample_rate_index_to_frame_sample_power ==
    << 6, 6, 7, 7, 7, 8, 8, 8, 6, 6, 7, 7, 7, 8, 8, 8 >>

\* Lines 50-51.
samples_per_frame(info) ==
    2 ^ sample_rate_index_to_frame_sample_power[sample_rate_index(info) + 1]
samples_per_superframe(info) == P32(samples_per_frame(info) * frame_per_superframe(info))

\* Line 53.
start_superframe(start_sample, info) == start_sample \div samples_per_superframe(info)

\* Line 54.
num_superframe(start_sample, num_samples, info) ==
    P32((P32(start_sample + num_samples + samples_per_superframe(info) - 1)
            \div samples_per_superframe(info))
        - start_superframe(start_sample, info))

\* Lines 56-60: the fields written to the SkipBufferInfo.
SkipBufferInfo(start_sample, num_samples, info) ==
    [ called |-> TRUE,
      num_bytes |-> P32(num_superframe(start_sample, num_samples, info)
                        * bytes_per_superframe(info)),
      is_super_packet |-> IF frame_per_superframe(info) = 1 THEN 0 ELSE 1,
      start_byte_offset |-> P32(start_superframe(start_sample, info)
                                * bytes_per_superframe(info)),
      start_skip |-> P32(start_sample - start_superframe(start_sample, info)
                                        * samples_per_superframe(info)),
      end_skip |-> P32(P32(start_superframe(start_sample, info)
                           + num_superframe(start_sample, num_samples, info))
                         * samples_per_superframe(info)
                       - P32(start_sample + num_samples)) ]

\* No call of get_buffer_parameter is under way.
NoRequest == [ start_sample |-> 0, num_samples |-> 0, info |-> [ hi |-> 0, lo |-> 0 ] ]
NoParameter ==
    [ called |-> FALSE, num_bytes |-> 0, is_super_packet |-> 0,
      start_byte_offset |-> 0, start_skip |-> 0, end_skip |-> 0 ]

\* A format word from its fields.
FormatWord(rate, block, bytes_low, bytes_high, superframe) ==
    [ hi |-> bytes_low + 2048 * superframe + 8192 * bytes_high,
      lo |-> 4096 * rate + 512 * block ]

FormatWords ==
    { FormatWord(rate, 3, bytes_low, bytes_high, superframe) :
        rate \in { 0, 2, 5, 15 }, bytes_low \in { 0, 3 }, bytes_high \in { 0, 5 },
        superframe \in 0 .. 3 }

\* Sample positions around the superframe boundaries and around the largest
\* word.
WindowEdges(info) ==
    LET sps == samples_per_superframe(info)
    IN { 0, 1, sps - 1, sps, sps + 1, 2 * sps - 1, 2 * sps,
         ParserMod - sps - 1, ParserMod - sps, ParserMod - sps + 1,
         ParserMod - 2, ParserMod - 1 }

Requests ==
    UNION { { [ start_sample |-> start, num_samples |-> num, info |-> info ] :
                start \in WindowEdges(info), num \in WindowEdges(info) } :
            info \in FormatWords }

\* ----------------------------------------------------- parameter blocks
Address(i) == 16 * (i + 1)

Descriptor(bytes, loop, next, dstart, dend, addr) ==
    [ bytes_count |-> bytes, loop_count |-> loop, next_buffer_index |-> next,
      samples_discard_start_off |-> dstart, samples_discard_end_off |-> dend,
      address |-> addr ]

EmptyTerminal(i) == Descriptor(0, 0, -1, 0, 0, Address(i))

ByteCounts ==
    { 0, SuperframeSize - 1, SuperframeSize, SuperframeSize + 1, 2 * SuperframeSize }
LoopCounts == { -1, 0, 1, 2 }
DiscardValues == { 0, 1, SamplesPerSuperframe, SamplesPerSuperframe + 1, UMod - 1 }

\* Chains of empty and one-superframe buffers, each slot terminal or linked to
\* the next slot (cyclically).
ChainBlocks ==
    { [ i \in Slots |-> Descriptor(b[i], 0, n[i], 0, 0, Address(i)) ] :
        b \in [ Slots -> { 0, SuperframeSize } ],
        n \in { f \in [ Slots -> -1 .. (NumBuffers - 1) ] :
                  \A i \in Slots : f[i] \in { -1, (i + 1) % NumBuffers } } }

\* A looping first buffer followed by nothing or by a second buffer.
LoopBlocks ==
    { [ i \in Slots |->
          IF i = 0 THEN Descriptor(b0, l0, n0, 0, 0, a0)
          ELSE IF i = 1 THEN Descriptor(b1, 0, -1, 0, 0, Address(1))
          ELSE EmptyTerminal(i) ] :
        b0 \in ByteCounts, l0 \in LoopCounts, n0 \in { -1, 1 },
        a0 \in { 0, Address(0) }, b1 \in { 0, SuperframeSize - 1, SuperframeSize } }

\* One buffer with discard padding at its start and end.
DiscardBlocks ==
    { [ i \in Slots |->
          IF i = 0 THEN Descriptor(b0, 0, -1, ds, de, Address(0))
          ELSE EmptyTerminal(i) ] :
        b0 \in { SuperframeSize, 2 * SuperframeSize },
        ds \in DiscardValues, de \in DiscardValues }

\* A buffer of one superframe with discard padding at its end, followed by a
\* buffer of two superframes.
DiscardChainBlocks ==
    { [ i \in Slots |->
          IF i = 0 THEN Descriptor(SuperframeSize, 0, 1, 0, de, Address(0))
          ELSE IF i = 1 THEN Descriptor(2 * SuperframeSize, 0, -1, 0, 0, Address(1))
          ELSE EmptyTerminal(i) ] :
        de \in DiscardValues }

ParamBlocks == ChainBlocks \cup LoopBlocks \cup DiscardBlocks \cup DiscardChainBlocks

\* ------------------------------------------------------------------ Init
InitState ==
    [ current_buffer |-> 0, current_byte_position_in_buffer |-> 0,
      current_loop_count |-> 0,
      samples_generated_since_key_on |-> 0, bytes_consumed_since_key_on |-> 0,
      samples_generated_total |-> 0, total_bytes_consumed |-> 0,
      decoded_samples_pending |-> 0, decoded_passed |-> 0 ]

\* The locals of decode_more_data, with the state and the backlog as the call
\* found them (after the compaction of lines 89-92).
NoLocal ==
    [ kind |-> "none",            \* which branch the call took
      current_buffer |-> 0,       \* int current_buffer (lines 80, 126)
      bufparam |-> 0,             \* the slot bufparam refers to (line 81)
      entry_state |-> InitState, entry_storage |-> << >>,
      decoded_size |-> 0, decoded_start_offset |-> 0,
      failed_frame |-> -1 ]       \* the frame whose send failed, or -1

\* The count of passes stops here: more than any finite loop_count asks for.
PassesCap == 2 + CHOOSE m \in LoopCounts : \A l \in LoopCounts : l <= m

InitHist ==
    [ ticks |-> 0, failures |-> 0, state_changes |-> 0,
      end_of_data |-> 0,         \* END_OF_DATA callbacks since the voice was reset
      passes |-> 0,              \* times the current buffer was played to its end
      read_past |-> FALSE,       \* a copy of line 234 has read past the scratch buffer
      last_return |-> "none",    \* how the last process call returned
      decoded |-> << >>,         \* the sample-frames the decode steps copied, in order
      published |-> << >> ]      \* the slices published on the normal path, in order

Init ==
    /\ params \in ParamBlocks
    /\ state = InitState
    /\ extra_storage = << >>
    /\ product = -1
    /\ decoder = [ built |-> FALSE, error |-> FALSE ]
    /\ scheduler_lock = FALSE
    /\ voice_lock = FALSE
    /\ pc = "idle"
    /\ local = NoLocal
    /\ cb_log = << >>
    /\ hist = InitHist
    /\ request = NoRequest
    /\ parameter = NoParameter

\* ------------------------------------------------------- on_state_change
\* Module::on_state_change, for a parent voice that is available or not and
\* keyed off or not.
StateAfterChange(st, available, is_keyed_off) ==
    IF available
    THEN [ st EXCEPT !.current_byte_position_in_buffer = 0,
                     !.current_loop_count = 0,
                     !.current_buffer = 0 ]
    ELSE IF is_keyed_off
    THEN [ st EXCEPT !.samples_generated_since_key_on = 0,
                     !.bytes_consumed_since_key_on = 0 ]
    ELSE st

on_state_change ==
    /\ pc = "idle"
    /\ hist.state_changes < MaxStateChanges
    /\ \E available \in BOOLEAN, is_keyed_off \in BOOLEAN :
         /\ state' = StateAfterChange(state, available, is_keyed_off)
         /\ hist' = [ hist EXCEPT !.state_changes = @ + 1,
                                  !.end_of_data = IF available THEN 0 ELSE @,
                                  !.passes = IF available THEN 0 ELSE @,
                                  !.last_return = IF available THEN "reset"
                                                  ELSE IF is_keyed_off THEN "keyed"
                                                  ELSE "changed" ]
    /\ UNCHANGED << request, parameter, params, extra_storage, product, decoder, scheduler_lock,
                    voice_lock, pc, local, cb_log >>

\* ---------------------------------------------------------------- process
\* ModuleData::fill_to_fit_granularity: pad the backlog with silence up to
\* granularity sample-frames.
fill_to_fit_granularity(storage) ==
    IF Len(storage) < Granularity
    THEN storage \o [ i \in 1 .. (Granularity - Len(storage)) |-> SilenceSample ]
    ELSE storage

\* A test that looks at the buffer index only.
NothingToPlay_IndexOnly(st) == st.current_buffer = -1

\* process, lines 264-266: nothing to play.
NothingToPlay(st) ==
    \/ st.current_buffer = -1
    \/ params[st.current_buffer].address = 0

\* process, lines 259-273: entry.  The caller has taken both locks for the call;
\* the lock variables keep, between calls, what the call left.
process ==
    /\ pc = "idle"
    /\ hist.ticks < MaxTicks
    /\ hist' = [ hist EXCEPT !.ticks = @ + 1,
                             !.last_return = IF NothingToPlay(state)
                                             THEN "nothing" ELSE "running" ]
    /\ scheduler_lock' = TRUE
    /\ voice_lock' = TRUE
    /\ IF NothingToPlay(state)
       THEN UNCHANGED << decoder, pc >>
       ELSE /\ decoder' = [ decoder EXCEPT !.built = TRUE ]
            /\ pc' = "while"
    /\ UNCHANGED << request, parameter, params, state, extra_storage, product, local, cb_log >>

\* A loop condition that stops one sample-frame early.
NeedsMoreData_OneShort(st) == ToInt32(st.decoded_samples_pending) < Granularity - 1

\* process, line 276: the loop condition.
NeedsMoreData(st) == ToInt32(st.decoded_samples_pending) < Granularity

\* process, lines 278-284: decode_more_data returned false.
Exhausted(st, storage, h) ==
    /\ extra_storage' = fill_to_fit_granularity(storage)
    /\ product' = 0
    /\ state' = [ st EXCEPT !.samples_generated_since_key_on = 0,
                            !.bytes_consumed_since_key_on = 0 ]
    /\ hist' = [ h EXCEPT !.last_return = "exhausted" ]
    /\ UNCHANGED << scheduler_lock, voice_lock >>
    /\ pc' = "idle"

\* process, lines 288-296: enough backlog; publish one slice.
PassedState(st) ==
    [ st EXCEPT !.decoded_samples_pending =
                    IF @ < Granularity THEN 0 ELSE @ - Granularity,
                !.decoded_passed = U32(@ + Granularity) ]

\* Lines 288-291: the Granularity sample-frames at the published pointer.
\* What lies past the end of the backlog is whatever the mixer reads there.
PublishedSlice(st, storage) ==
    [ i \in 1 .. Granularity |->
        IF st.decoded_passed + i <= Len(storage)
        THEN storage[st.decoded_passed + i]
        ELSE GarbageSample ]

process_while ==
    /\ pc = "while"
    /\ IF NeedsMoreData(state)
       THEN /\ pc' = "decode_more_data"
            /\ UNCHANGED << state, product, scheduler_lock, voice_lock, hist >>
       ELSE /\ product' = state.decoded_passed
            /\ state' = PassedState(state)
            /\ hist' = [ hist EXCEPT !.last_return = "more",
                                     !.published = @ \o PublishedSlice(state, extra_storage) ]
            /\ UNCHANGED << scheduler_lock, voice_lock >>
            /\ pc' = "idle"
    /\ UNCHANGED << request, parameter, params, extra_storage, decoder, local, cb_log >>

\* ------------------------------------------- decode_more_data: the entry
\* Lines 89-92: drop the sample-frames already passed to the mixer.
CompactedStorage(st, storage) ==
    IF storage # << >>
    THEN SubSeq(storage, st.decoded_passed + 1, Len(storage))
    ELSE storage

CompactedState(st, storage) ==
    IF storage # << >> THEN [ st EXCEPT !.decoded_passed = 0 ] ELSE st

\* Line 94: the current buffer is used up.
BufferExhausted(st, bp) == st.current_byte_position_in_buffer >= bp.bytes_count

\* Line 149: the unread bytes of the buffer.
frame_bytes_gotten(st, bp) == U32(bp.bytes_count - st.current_byte_position_in_buffer)

\* A test that lets a remainder of one byte less than a superframe through.
ShortBuffer_OneByteLess(st, bp) == frame_bytes_gotten(st, bp) < SuperframeSize - 1

\* Line 150: less than one superframe is left.
ShortBuffer(st, bp) == frame_bytes_gotten(st, bp) < SuperframeSize

EntryLocal(kind, st, storage) ==
    [ NoLocal EXCEPT !.kind = kind,
                     !.current_buffer = st.current_buffer,
                     !.bufparam = st.current_buffer,
                     !.entry_state = st,
                     !.entry_storage = storage ]

\* Lines 80-97: the buffer is used up; start the chain transition by releasing
\* the voice lock.
decode_more_data_transition ==
    /\ pc = "decode_more_data"
    /\ LET st == CompactedState(state, extra_storage)
           storage == CompactedStorage(state, extra_storage)
       IN /\ BufferExhausted(st, params[st.current_buffer])
          /\ state' = st
          /\ extra_storage' = storage
          /\ local' = EntryLocal("transition", st, storage)
    /\ hist' = [ hist EXCEPT !.passes = Min(@ + 1, PassesCap) ]
    /\ cb_log' = << >>
    /\ voice_lock' = FALSE
    /\ pc' = "unlock_scheduler"
    /\ UNCHANGED << request, parameter, params, product, decoder, scheduler_lock >>

\* Lines 80-94 and 148-156: less than a superframe is left; give up, and
\* process takes its exhaustion path.
decode_more_data_short ==
    /\ pc = "decode_more_data"
    /\ LET st == CompactedState(state, extra_storage)
           storage == CompactedStorage(state, extra_storage)
       IN /\ ~BufferExhausted(st, params[st.current_buffer])
          /\ ShortBuffer(st, params[st.current_buffer])
          /\ local' = EntryLocal("short", st, storage)
          /\ Exhausted(st, storage, hist)
    /\ cb_log' = << >>
    /\ UNCHANGED << request, parameter, params, decoder >>

\* ------------------------------------- decode_more_data: chain transition
\* A transition that keeps the scheduler lock.
transition_keep_scheduler ==
    /\ pc = "unlock_scheduler"
    /\ pc' = "transition"
    /\ UNCHANGED << request, parameter, params, state, extra_storage, product, decoder, scheduler_lock,
                    voice_lock, local, cb_log, hist >>

\* Line 98.
transition_unlock_scheduler ==
    /\ pc = "unlock_scheduler"
    /\ scheduler_lock' = FALSE
    /\ pc' = "transition"
    /\ UNCHANGED << request, parameter, params, state, extra_storage, product, decoder, voice_lock,
                    local, cb_log, hist >>

\* current_loop_count++ on the 32-bit signed field.
Inc32(x) == ToInt32(x + 1)

\* A loop test that moves on one pass early.
LoopsDone_OnePassEarly(count, bp) == bp.loop_count # -1 /\ count >= bp.loop_count

\* Line 102: the buffer has played all its loops.
LoopsDone(count, bp) == bp.loop_count # -1 /\ count > bp.loop_count

\* A transition that starts over at the first buffer when the chain ends.
TransitionState_WrapToFirst(st, bp) ==
    LET count == Inc32(st.current_loop_count)
    IN IF LoopsDone(count, bp)
       THEN [ st EXCEPT !.current_buffer = IF bp.next_buffer_index = -1
                                           THEN 0 ELSE bp.next_buffer_index,
                        !.current_loop_count = 0 ]
       ELSE [ st EXCEPT !.current_loop_count = count ]

\* Lines 100-104: loop or move on.
TransitionState(st, bp) ==
    LET count == Inc32(st.current_loop_count)
    IN IF LoopsDone(count, bp)
       THEN [ st EXCEPT !.current_buffer = bp.next_buffer_index,
                        !.current_loop_count = 0 ]
       ELSE [ st EXCEPT !.current_loop_count = count ]

\* Lines 102-120: which callbacks the transition invokes.
TransitionKind(st, bp) ==
    IF LoopsDone(Inc32(st.current_loop_count), bp)
    THEN IF bp.next_buffer_index = -1 THEN "end" ELSE "swap"
    ELSE "loop"

transition_advance ==
    /\ pc = "transition"
    /\ state' = TransitionState(state, params[local.bufparam])
    /\ local' = [ local EXCEPT !.kind = TransitionKind(state, params[local.bufparam]) ]
    /\ pc' = "callback"
    /\ UNCHANGED << request, parameter, params, extra_storage, product, decoder, scheduler_lock,
                    voice_lock, cb_log, hist >>

\* data.invoke_callback, with the locks as the callback finds them.
Callback(type, arg1, arg2) ==
    [ type |-> type, arg1 |-> arg1, arg2 |-> arg2,
      scheduler_lock |-> scheduler_lock, voice_lock |-> voice_lock ]

\* Lines 107, 111 and 116: the first callback of the transition.
transition_callback ==
    /\ pc = "callback"
    /\ cb_log' = Append(cb_log,
         IF local.kind = "end"
         THEN Callback(SCE_NGS_AT9_END_OF_DATA, 0, 0)
         ELSE Callback(SCE_NGS_AT9_SWAPPED_BUFFER, state.current_loop_count,
                       params[state.current_buffer].address))
    /\ hist' = [ hist EXCEPT !.end_of_data = IF local.kind = "end" THEN @ + 1 ELSE @ ]
    /\ pc' = IF local.kind = "loop" THEN "looped_callback" ELSE "lock_scheduler"
    /\ UNCHANGED << request, parameter, params, state, extra_storage, product, decoder, scheduler_lock,
                    voice_lock, local >>

\* Line 118: the current buffer loops.
transition_looped_callback ==
    /\ pc = "looped_callback"
    /\ cb_log' = Append(cb_log,
         Callback(SCE_NGS_AT9_LOOPED_BUFFER, state.current_loop_count,
                  params[state.current_buffer].address))
    /\ pc' = "lock_scheduler"
    /\ UNCHANGED << request, parameter, params, state, extra_storage, product, decoder, scheduler_lock,
                    voice_lock, local, hist >>

\* Line 122.
transition_lock_scheduler ==
    /\ pc = "lock_scheduler"
    /\ scheduler_lock' = TRUE
    /\ pc' = "lock_voice"
    /\ UNCHANGED << request, parameter, params, state, extra_storage, product, decoder, voice_lock,
                    local, cb_log, hist >>

\* Line 123.
transition_lock_voice ==
    /\ pc = "lock_voice"
    /\ voice_lock' = TRUE
    /\ pc' = "transition_done"
    /\ UNCHANGED << request, parameter, params, state, extra_storage, product, decoder, scheduler_lock,
                    local, cb_log, hist >>

\* Lines 134-136: follow next_buffer_index over empty buffers, from hop k on.
RECURSIVE SkipEmpty(_, _)
SkipEmpty(current_buffer, k) ==
    IF k < NumBuffers /\ current_buffer # -1 /\ params[current_buffer].bytes_count = 0
    THEN SkipEmpty(params[current_buffer].next_buffer_index, k + 1)
    ELSE current_buffer

\* Lines 126-141: the buffer the local variable current_buffer ends on.
FoundBuffer(st) ==
    IF st.current_buffer # -1 /\ params[st.current_buffer].bytes_count = 0
    THEN SkipEmpty(st.current_buffer, 0)
    ELSE st.current_buffer

\* A test that forgets the check after the empty-buffer loop.
TransitionContinues_AnyBuffer(st) == FoundBuffer(st) # -1

\* Lines 128-144: whether the transition reports more data.
TransitionContinues(st) ==
    /\ FoundBuffer(st) # -1
    /\ params[FoundBuffer(st)].bytes_count # 0

\* Lines 125-144.
transition_done ==
    /\ pc = "transition_done"
    /\ LET st == [ state EXCEPT !.current_byte_position_in_buffer = 0 ]
           h == [ hist EXCEPT !.passes = IF local.kind = "loop" THEN @ ELSE 0 ]
       IN /\ local' = [ local EXCEPT !.current_buffer = FoundBuffer(st) ]
          /\ IF TransitionContinues(st)
             THEN /\ state' = st
                  /\ hist' = h
                  /\ pc' = "while"
                  /\ UNCHANGED << extra_storage, product, scheduler_lock, voice_lock >>
             ELSE Exhausted(st, extra_storage, h)
    /\ UNCHANGED << request, parameter, params, decoder, cb_log >>

\* ------------------------------------- decode_more_data: one superframe
\* Line 168: the sample index of the superframe at the current byte offset.
sample_index(st) ==
    U32((st.current_byte_position_in_buffer \div SuperframeSize) * SamplesPerSuperframe)

\* Line 176: the samples of the buffer that follow this superframe.
samples_left_after(st, bp) ==
    U32(((frame_bytes_gotten(st, bp) \div SuperframeSize) - 1) * SamplesPerSuperframe)

\* Lines 169-174: the samples skipped at the start of this superframe.
StartSkip(st, bp) ==
    IF bp.samples_discard_start_off > sample_index(st)
    THEN Min(SamplesPerSuperframe, U32(bp.samples_discard_start_off - sample_index(st)))
    ELSE 0

\* Lines 177-181: what is taken off decoded_size at the end of the buffer.
EndSkip(st, bp) ==
    IF bp.samples_discard_end_off > samples_left_after(st, bp)
    THEN bp.samples_discard_end_off
    ELSE 0

\* Lines 163-181.
decoded_start_offset(st, bp) == StartSkip(st, bp)
decoded_size(st, bp) == U32(U32(SamplesPerSuperframe - StartSkip(st, bp)) - EndSkip(st, bp))

\* Line 234 reads past the scratch buffer of one superframe.
ReadsPastScratch(st, bp) ==
    decoded_start_offset(st, bp) + decoded_size(st, bp) > SamplesPerSuperframe

\* Lines 186-233: the scratch buffer after `sent` frames were decoded, the
\* rest left zeroed.
Scratch(st, sent) ==
    [ i \in 1 .. SamplesPerSuperframe |->
        IF (i - 1) \div SamplesPerFrame < sent
        THEN DecodedSample(st.current_buffer,
                 st.current_byte_position_in_buffer
                     + ((i - 1) \div SamplesPerFrame) * get_es_size,
                 (i - 1) % SamplesPerFrame)
        ELSE ZeroSample ]

\* Lines 183 and 234: resize the backlog to the pending samples plus
\* decoded_size and copy the trimmed part of the scratch buffer behind them.
AppendedStorage(st, bp, storage, sent) ==
    LET curr_pos == st.decoded_samples_pending
        size == decoded_size(st, bp)
        offset == decoded_start_offset(st, bp)
    IN [ i \in 1 .. (curr_pos + size) |->
           IF i <= curr_pos
           THEN IF i <= Len(storage) THEN storage[i] ELSE ZeroSample
           ELSE IF offset + (i - curr_pos) <= SamplesPerSuperframe
                THEN Scratch(st, sent)[offset + (i - curr_pos)]
                ELSE GarbageSample ]

\* Line 234: the sample-frames the copy takes from the scratch buffer.
CopiedFrames(st, bp, sent) ==
    [ i \in 1 .. decoded_size(st, bp) |->
        IF decoded_start_offset(st, bp) + i <= SamplesPerSuperframe
        THEN Scratch(st, sent)[decoded_start_offset(st, bp) + i]
        ELSE GarbageSample ]

\* Line 232, once per frame sent.
AfterFrames(st, sent) ==
    [ st EXCEPT !.current_byte_position_in_buffer = @ + sent * get_es_size ]

\* Lines 250-255.
CountedState(st, size) ==
    [ st EXCEPT !.samples_generated_since_key_on = U32(@ + size),
                !.samples_generated_total = U32(@ + size),
                !.bytes_consumed_since_key_on = U32(@ + SuperframeSize),
                !.total_bytes_consumed = U32(@ + SuperframeSize),
                !.decoded_samples_pending = U32(@ + size) ]

\* Lines 80-94 and 148-256 without a failing send: one superframe is decoded,
\* trimmed and appended.  When the copy of line 234 reads past the scratch
\* buffer the build either dies there or goes on with whatever it read.
decode_more_data_decode ==
    /\ pc = "decode_more_data"
    /\ LET st == CompactedState(state, extra_storage)
           storage == CompactedStorage(state, extra_storage)
           bp == params[st.current_buffer]
       IN /\ ~BufferExhausted(st, bp)
          /\ ~ShortBuffer(st, bp)
          /\ local' = [ EntryLocal("decoded", st, storage) EXCEPT
                          !.decoded_size = decoded_size(st, bp),
                          !.decoded_start_offset = decoded_start_offset(st, bp) ]
          /\ extra_storage' = AppendedStorage(st, bp, storage, FramesInSuperframe)
          /\ state' = CountedState(AfterFrames(st, FramesInSuperframe),
                                   decoded_size(st, bp))
          /\ hist' = [ hist EXCEPT !.read_past = @ \/ ReadsPastScratch(st, bp),
                                   !.decoded = @ \o CopiedFrames(st, bp, FramesInSuperframe) ]
          /\ \/ pc' = "while"
             \/ ReadsPastScratch(st, bp) /\ pc' = "crashed"
    /\ cb_log' = << >>
    /\ UNCHANGED << request, parameter, params, product, decoder, scheduler_lock, voice_lock >>

\* Lines 80-94 and 148-237 with the send of frame `failed` failing: the frames
\* before it are decoded, the loop breaks, the trimmed scratch buffer is
\* appended all the same, and the error path starts by releasing the voice lock.
decode_more_data_error ==
    /\ pc = "decode_more_data"
    /\ hist.failures < MaxFailures
    /\ \E failed \in 0 .. (FramesInSuperframe - 1) :
         LET st == CompactedState(state, extra_storage)
             storage == CompactedStorage(state, extra_storage)
             bp == params[st.current_buffer]
         IN /\ ~BufferExhausted(st, bp)
            /\ ~ShortBuffer(st, bp)
            /\ local' = [ EntryLocal("failed", st, storage) EXCEPT
                            !.decoded_size = decoded_size(st, bp),
                            !.decoded_start_offset = decoded_start_offset(st, bp),
                            !.failed_frame = failed ]
            /\ extra_storage' = AppendedStorage(st, bp, storage, failed)
            /\ state' = AfterFrames(st, failed)
            /\ hist' = [ hist EXCEPT !.failures = @ + 1,
                                     !.decoded = @ \o CopiedFrames(st, bp, failed),
                                     !.read_past = @ \/ ReadsPastScratch(st, bp) ]
            /\ \/ pc' = "error_unlock_scheduler" /\ voice_lock' = FALSE
               \/ ReadsPastScratch(st, bp) /\ pc' = "crashed" /\ voice_lock' = voice_lock
    /\ decoder' = [ decoder EXCEPT !.error = TRUE ]
    /\ cb_log' = << >>
    /\ UNCHANGED << request, parameter, params, product, scheduler_lock >>

\* Line 238.
error_unlock_scheduler ==
    /\ pc = "error_unlock_scheduler"
    /\ scheduler_lock' = FALSE
    /\ pc' = "error_callback"
    /\ UNCHANGED << request, parameter, params, state, extra_storage, product, decoder, voice_lock,
                    local, cb_log, hist >>

\* Lines 240-241.
error_callback ==
    /\ pc = "error_callback"
    /\ cb_log' = Append(cb_log,
         Callback(SCE_NGS_AT9_DECODE_ERROR, state.current_byte_position_in_buffer,
                  params[state.current_buffer].address))
    /\ pc' = "error_lock_scheduler"
    /\ UNCHANGED << request, parameter, params, state, extra_storage, product, decoder, scheduler_lock,
                    voice_lock, local, hist >>

\* Line 243.
error_lock_scheduler ==
    /\ pc = "error_lock_scheduler"
    /\ scheduler_lock' = TRUE
    /\ pc' = "error_lock_voice"
    /\ UNCHANGED << request, parameter, params, state, extra_storage, product, decoder, voice_lock,
                    local, cb_log, hist >>

\* Line 244.
error_lock_voice ==
    /\ pc = "error_lock_voice"
    /\ voice_lock' = TRUE
    /\ pc' = "error_done"
    /\ UNCHANGED << request, parameter, params, state, extra_storage, product, decoder, scheduler_lock,
                    local, cb_log, hist >>

\* Lines 247-256.
error_done ==
    /\ pc = "error_done"
    /\ decoder' = [ decoder EXCEPT !.error = FALSE ]
    /\ state' = CountedState(state, local.decoded_size)
    /\ pc' = "while"
    /\ UNCHANGED << request, parameter, params, extra_storage, product, scheduler_lock, voice_lock,
                    local, cb_log, hist >>

\* ------------------------------------------------------------------ Next
Next ==
    \/ on_state_change
    \/ process
    \/ process_while
    \/ decode_more_data_transition
    \/ decode_more_data_short
    \/ decode_more_data_decode
    \/ decode_more_data_error
    \/ transition_unlock_scheduler
    \/ transition_advance
    \/ transition_callback
    \/ transition_looped_callback
    \/ transition_lock_scheduler
    \/ transition_lock_voice
    \/ transition_done
    \/ error_unlock_scheduler
    \/ error_callback
    \/ error_lock_scheduler
    \/ error_lock_voice
    \/ error_done

Spec == Init /\ [][Next]_vars

\* The thread that runs process keeps running.
FairSpec == Spec /\ WF_vars(Next)

\* ------------------------------------------ get_buffer_parameter, alone
\* get_buffer_parameter is a free function of its arguments; it is explored
\* on its own, one call per behaviour, next to an untouched voice.
ParserInit ==
    /\ params = [ i \in Slots |-> EmptyTerminal(i) ]
    /\ state = InitState
    /\ extra_storage = << >>
    /\ product = -1
    /\ decoder = [ built |-> FALSE, error |-> FALSE ]
    /\ scheduler_lock = FALSE
    /\ voice_lock = FALSE
    /\ pc = "idle"
    /\ local = NoLocal
    /\ cb_log = << >>
    /\ hist = InitHist
    /\ request \in Requests
    /\ parameter = NoParameter

\* Lines 35-61.
get_buffer_parameter ==
    /\ ~parameter.called
    /\ parameter' = SkipBufferInfo(request.start_sample, request.num_samples,
                                   request.info)
    /\ UNCHANGED << request, params, state, extra_storage, product, decoder,
                    scheduler_lock, voice_lock, pc, local, cb_log, hist >>

ParserNext == get_buffer_parameter

ParserSpec == ParserInit /\ [][ParserNext]_vars

\* ================================================================ claims
\* What the last call of process did, seen between two calls.
TickExhausted == pc = "idle" /\ hist.last_return = "exhausted"
TickPublishedSlice == pc = "idle" /\ hist.last_return = "more"

\* C1: a tick that publishes output publishes a region of exactly Granularity
\* sample-frames that lies inside the backlog.  On the exhaustion path the
\* region starts at the head of the backlog; a backlog that held no more than
\* Granularity sample-frames holds exactly Granularity after the padding, those
\* behind what it held before being silence.  On the normal path the region
\* is [cursor, cursor + Granularity), the cursor being decoded_passed before
\* the tick advanced it.
C1_PublishesGranularity ==
    /\ (TickExhausted \/ TickPublishedSlice) =>
          /\ product >= 0
          /\ product + Granularity <= Len(extra_storage)
    /\ TickExhausted =>
          /\ product = 0
          /\ Len(local.entry_storage) <= Granularity =>
                Len(extra_storage) = Granularity
          /\ \A i \in (Len(local.entry_storage) + 1) .. Granularity :
                extra_storage[i] = SilenceSample
    /\ TickPublishedSlice => state.decoded_passed = U32(product + Granularity)

\* C1 witness: an exhausted tick padded a backlog that held some sample-frames,
\* after an earlier tick had published a slice.
C1_Witness ==
    /\ TickExhausted
    /\ hist.ticks >= 2
    /\ Len(local.entry_storage) > 0
    /\ Len(local.entry_storage) < Granularity

\* What the last call of decode_more_data did.
StepDecoded == local.kind \in { "decoded", "failed" }

\* C2: after discard trimming decoded_size is within [0, SamplesPerSuperframe]
\* and decoded_start_offset + decoded_size does not exceed SamplesPerSuperframe.
C2_DecodedSizeInRange ==
    StepDecoded =>
        /\ local.decoded_size >= 0
        /\ local.decoded_size <= SamplesPerSuperframe
        /\ local.decoded_start_offset + local.decoded_size <= SamplesPerSuperframe

\* C3: every call of process returns (the process dying in the copy of line
\* 234 is not counted against the claim).
C3_ProcessTerminates == (pc = "while") ~> (pc \in { "idle", "crashed" })

\* C4: every callback runs with the scheduler lock and the voice lock released;
\* the voice lock is held only while the scheduler lock is (released first,
\* taken last); and both are held when decode_more_data has returned.
C4_CallbacksOutsideLocks ==
    /\ \A i \in 1 .. Len(cb_log) :
          ~cb_log[i].scheduler_lock /\ ~cb_log[i].voice_lock
    /\ voice_lock => scheduler_lock
    /\ (pc \in { "while", "decode_more_data" } \/ (pc = "idle" /\ hist.ticks > 0))
          => (scheduler_lock /\ voice_lock)

\* C4 witness: a looping transition has invoked both its callbacks and has
\* taken the scheduler lock back, not yet the voice lock.
C4_Witness ==
    /\ pc = "lock_voice"
    /\ Len(cb_log) = 2
    /\ scheduler_lock
    /\ ~voice_lock

\* The chain transition of the running decode_more_data call has chosen its
\* branch (lines 100-104 are done), and has invoked its callbacks.
TransitionChosen ==
    pc \in { "callback", "looped_callback", "lock_scheduler", "lock_voice",
             "transition_done" }
TransitionCalledBack == pc \in { "lock_scheduler", "lock_voice", "transition_done" }

\* The buffer the running decode_more_data call found used up has a finite
\* loop_count and a non-zero bytes_count.
FiniteLoopBuffer ==
    /\ params[local.bufparam].loop_count >= 0
    /\ params[local.bufparam].bytes_count # 0

\* C5: a buffer with finite loop_count N and bytes_count # 0 has been played
\* to its end exactly N + 1 times when the walk leaves it for
\* next_buffer_index.  A transition that stays on the buffer invokes
\* SWAPPED_BUFFER and LOOPED_BUFFER, both with the new iteration number and the
\* buffer's address; one that moves to a next buffer invokes SWAPPED_BUFFER only.
C5_FiniteLoopPlaysNPlusOne ==
    (TransitionChosen /\ FiniteLoopBuffer) =>
        LET bp == params[local.bufparam]
        IN /\ local.kind \in { "swap", "end" } => hist.passes = bp.loop_count + 1
           /\ local.kind = "loop" =>
                 /\ hist.passes <= bp.loop_count
                 /\ state.current_buffer = local.bufparam
                 /\ state.current_loop_count = hist.passes
           /\ (TransitionCalledBack /\ local.kind = "loop") =>
                 /\ Len(cb_log) = 2
                 /\ cb_log[1].type = SCE_NGS_AT9_SWAPPED_BUFFER
                 /\ cb_log[2].type = SCE_NGS_AT9_LOOPED_BUFFER
                 /\ \A i \in 1 .. 2 :
                       /\ cb_log[i].arg1 = hist.passes
                       /\ cb_log[i].arg2 = bp.address
           /\ (TransitionCalledBack /\ local.kind = "swap") =>
                 /\ Len(cb_log) = 1
                 /\ cb_log[1].type = SCE_NGS_AT9_SWAPPED_BUFFER
                 /\ cb_log[1].arg2 = params[bp.next_buffer_index].address

\* C5 witness: a buffer with loop_count 2 has been played three times and the
\* walk has moved to its successor, with one callback.
C5_Witness ==
    /\ pc = "transition_done"
    /\ FiniteLoopBuffer
    /\ params[local.bufparam].loop_count = 2
    /\ local.kind = "swap"
    /\ hist.passes = 3
    /\ Len(cb_log) = 1

\* C6: a tick that ends on a non-looping buffer without successor that holds
\* less than one superframe publishes Granularity sample-frames of silence,
\* and exactly one END_OF_DATA callback has been invoked.
C6_ShortLastBufferEndsData ==
    ( /\ TickExhausted
      /\ local.kind \in { "short", "end" }
      /\ params[local.bufparam].loop_count = 0
      /\ params[local.bufparam].next_buffer_index = -1
      /\ params[local.bufparam].bytes_count < SuperframeSize )
    => /\ hist.end_of_data = 1
       /\ \A i \in 1 .. Granularity : IsSilent(extra_storage[i])

\* The last decode step had a failing send and has run to its end.
FailedStepDone == pc = "while" /\ local.kind = "failed"

\* C7: DECODE_ERROR carries the byte offset at which the superframe started.
C7_ErrorOffsetIsSuperframeStart ==
    \A i \in 1 .. Len(cb_log) :
        cb_log[i].type = SCE_NGS_AT9_DECODE_ERROR =>
            cb_log[i].arg1 = local.entry_state.current_byte_position_in_buffer

\* C8: after a decode step with a failing send the decoder's error is cleared
\* and the byte offset is the failed superframe's start plus one superframe.
C8_ErrorSkipsSuperframe ==
    FailedStepDone =>
        /\ ~decoder.error
        /\ state.current_byte_position_in_buffer =
              local.entry_state.current_byte_position_in_buffer + SuperframeSize

\* C9: a decode step with a failing send adds nothing: the pending count, the
\* sample counters and the backlog are as the step found them.
C9_FailedStepAddsNothing ==
    FailedStepDone =>
        /\ state.decoded_samples_pending = local.entry_state.decoded_samples_pending
        /\ state.samples_generated_since_key_on =
              local.entry_state.samples_generated_since_key_on
        /\ state.samples_generated_total = local.entry_state.samples_generated_total
        /\ extra_storage = local.entry_storage

\* The sample-frames of the backlog that decode steps appended (the others
\* are the silence of fill_to_fit_granularity).
AppendedInBacklog ==
    Cardinality({ i \in 1 .. Len(extra_storage) : extra_storage[i] # SilenceSample })

\* C10: between ticks, decoded_samples_pending plus decoded_passed is the
\* number of appended sample-frames the backlog holds.
C10_PendingPlusCursorIsBacklog ==
    pc = "idle" =>
        state.decoded_samples_pending + state.decoded_passed = AppendedInBacklog

\* The buffer n steps of next_buffer_index after buffer b; -1 once the chain
\* has reached its end.
RECURSIVE Hop(_, _)
Hop(b, n) == IF n = 0 \/ b = -1 THEN b ELSE Hop(params[b].next_buffer_index, n - 1)

\* Buffer b is a slot that holds no bytes.
IsEmptyBuffer(b) == b # -1 /\ params[b].bytes_count = 0

\* C11: the empty-buffer skip at the end of a chain transition follows
\* next_buffer_index at most 4 times over empty buffers and stops at the first
\* buffer that is not empty; the step returns true exactly when it stopped on
\* a buffer with bytes, and otherwise (end of the chain, or 4 steps over
\* empty buffers, as in a cycle of empty buffers) returns false.
C11_SkipStopsWithinFourHops ==
    [][ pc = "transition_done" =>
          \E n \in 0 .. 4 :
             LET found == Hop(state.current_buffer, n)
             IN /\ local'.current_buffer = found
                /\ \A j \in 0 .. (n - 1) : IsEmptyBuffer(Hop(state.current_buffer, j))
                /\ n < 4 => ~IsEmptyBuffer(found)
                /\ (found # -1 /\ ~IsEmptyBuffer(found)) => pc' = "while"
                /\ (found = -1 \/ IsEmptyBuffer(found)) =>
                      (pc' = "idle" /\ hist'.last_return = "exhausted") ]_vars

\* C11 witness: a transition has moved into a cycle of four empty buffers,
\* the skip has come back to an empty buffer, and the step returned false.
C11_Witness ==
    /\ pc = "idle"
    /\ hist.last_return = "exhausted"
    /\ local.kind = "swap"
    /\ IsEmptyBuffer(local.current_buffer)
    /\ \A j \in 0 .. 4 : IsEmptyBuffer(Hop(state.current_buffer, j))
    /\ local.current_buffer = Hop(state.current_buffer, 4)

\* process is entered in a state whose current_buffer is -1 or designates a
\* buffer with address 0.
EnteredWithNothing ==
    /\ pc = "idle"
    /\ hist'.ticks = hist.ticks + 1
    /\ \/ state.current_buffer = -1
       \/ params[state.current_buffer].address = 0

\* C12: a call of process entered with current_buffer = -1, or with the
\* current buffer's address 0, returns true and changes nothing: the product,
\* the callbacks, every field of the state, the backlog and the decoder are as
\* before the call.
C12_NothingToPlayChangesNothing ==
    [][ EnteredWithNothing =>
          /\ pc' = "idle"
          /\ hist'.last_return = "nothing"
          /\ state' = state
          /\ extra_storage' = extra_storage
          /\ product' = product
          /\ cb_log' = cb_log
          /\ decoder' = decoder
          /\ params' = params ]_vars

\* C12 witness: after END_OF_DATA left current_buffer at -1, a further call
\* of process has returned at once.
C12_Witness ==
    /\ pc = "idle"
    /\ hist.last_return = "nothing"
    /\ state.current_buffer = -1
    /\ hist.end_of_data = 1

\* ceil(a / b) and floor(a / b) over the naturals.
CeilDiv(a, b) == (a + b - 1) \div b
FloorDiv(a, b) == a \div b

\* The number of superframes the claimed formula gives for the call:
\* ceil((start_sample + num_samples) / samples_per_superframe) minus
\* floor(start_sample / samples_per_superframe), the sum taken as a word.
ClaimedSuperframes ==
    CeilDiv(P32(request.start_sample + request.num_samples),
            samples_per_superframe(request.info))
    - FloorDiv(request.start_sample, samples_per_superframe(request.info))

\* C13: for every format word and window, get_buffer_parameter returns
\* num_bytes = numSuperframes * bytes_per_superframe and start_byte_offset =
\* floor(start_sample / samples_per_superframe) * bytes_per_superframe with
\* numSuperframes as the claimed formula gives it, start_skip + num_samples +
\* end_skip = numSuperframes * samples_per_superframe, and start_skip and
\* end_skip below samples_per_superframe; all as words.
C13_SuperframeAlignedRange ==
    parameter.called =>
        LET sps == samples_per_superframe(request.info)
            bps == bytes_per_superframe(request.info)
        IN /\ parameter.num_bytes = P32(ClaimedSuperframes * bps)
           /\ parameter.start_byte_offset =
                 P32(FloorDiv(request.start_sample, sps) * bps)
           /\ P32(parameter.start_skip + request.num_samples + parameter.end_skip)
                 = P32(ClaimedSuperframes * sps)
           /\ parameter.start_skip < sps
           /\ parameter.end_skip < sps

\* A chain transition is under way and the thread holds neither lock.
TransitionUnlocked ==
    /\ pc \in { "transition", "callback", "looped_callback", "lock_scheduler" }
    /\ ~scheduler_lock
    /\ ~voice_lock

\* C14: while a chain transition has both locks released, no field of the
\* state is written.
C14_NoStateWriteWhileUnlocked ==
    [][ TransitionUnlocked => state' = state ]_vars

\* C15: when the transition branch of decode_more_data returns true, the
\* current_buffer of the state designates a buffer with bytes_count # 0.
C15_StateOnNonEmptyBuffer ==
    [][ (pc = "transition_done" /\ pc' = "while") =>
           /\ state'.current_buffer # -1
           /\ params[state'.current_buffer].bytes_count # 0 ]_vars

\* on_state_change runs for a parent voice in the available state.
VoiceBecomesIdle ==
    /\ pc = "idle"
    /\ hist'.state_changes = hist.state_changes + 1
    /\ hist'.last_return = "reset"

\* C16: on_state_change for an available (idle) voice resets every field of
\* the state to zero.
C16_IdleResetsEveryField ==
    [][ VoiceBecomesIdle => \A field \in DOMAIN state' : state'[field] = 0 ]_vars

\* on_state_change runs for a parent voice that is not available and not
\* keyed off: a voice that has been keyed on.
VoiceKeyedOn ==
    /\ pc = "idle"
    /\ hist'.state_changes = hist.state_changes + 1
    /\ hist'.last_return = "changed"

\* C17: on_state_change for a voice that is in use and keyed on sets the two
\* since-key-on counters to 0 and leaves the other fields of the state and
\* the backlog unchanged.
C17_KeyOnResetsSinceKeyOn ==
    [][ VoiceKeyedOn =>
          /\ state' = [ state EXCEPT !.samples_generated_since_key_on = 0,
                                     !.bytes_consumed_since_key_on = 0 ]
          /\ extra_storage' = extra_storage ]_vars

\* decode_more_data is entered on a buffer whose unread remainder is not
\* empty but shorter than one superframe.
ShortRemainder ==
    /\ pc = "decode_more_data"
    /\ state.current_byte_position_in_buffer < params[state.current_buffer].bytes_count
    /\ params[state.current_buffer].bytes_count
          - state.current_byte_position_in_buffer < SuperframeSize

\* C18: on a remainder shorter than one superframe the decode step gives up
\* without output: no callback, no frame sent to the decoder, and buffer index,
\* byte offset, loop count, pending count and total counters as before; the
\* tick ends on the exhaustion path: the backlog is padded with silence to
\* Granularity sample-frames and published, the since-key-on counters are 0
\* and process returns true.
C18_ShortRemainderAborts ==
    [][ ShortRemainder =>
          /\ cb_log' = << >>
          /\ decoder' = decoder
          /\ state'.current_buffer = state.current_buffer
          /\ state'.current_byte_position_in_buffer =
                state.current_byte_position_in_buffer
          /\ state'.current_loop_count = state.current_loop_count
          /\ state'.decoded_samples_pending = state.decoded_samples_pending
          /\ state'.samples_generated_total = state.samples_generated_total
          /\ state'.total_bytes_consumed = state.total_bytes_consumed
          /\ state'.samples_generated_since_key_on = 0
          /\ state'.bytes_consumed_since_key_on = 0
          /\ Len(extra_storage') >= Granularity
          /\ \A i \in 1 .. Len(extra_storage') :
                \/ extra_storage'[i] = SilenceSample
                \/ /\ i + state.decoded_passed <= Len(extra_storage)
                   /\ extra_storage'[i] = extra_storage[i + state.decoded_passed]
          /\ product' = 0
          /\ pc' = "idle"
          /\ hist'.last_return = "exhausted" ]_vars

\* C18 witness: a superframe of the buffer was decoded, the byte that is left
\* is no superframe, and the tick has ended on the exhaustion path with the
\* decoded sample-frames still pending.
C18_Witness ==
    /\ pc = "idle"
    /\ hist.last_return = "exhausted"
    /\ local.kind = "short"
    /\ state.current_byte_position_in_buffer > 0
    /\ state.decoded_samples_pending > 0
    /\ extra_storage[Granularity] = SilenceSample

\* A call of process starts.
TickStarts == pc = "idle" /\ hist'.ticks = hist.ticks + 1

\* C19: once END_OF_DATA has been invoked, current_buffer is -1 and stays -1
\* until on_state_change resets an available voice; every later call of
\* process returns true at once, without a callback and without a write to
\* the state; so END_OF_DATA is invoked at most once per playback.
C19_EndOfDataIsAbsorbing ==
    [][ /\ hist'.end_of_data >= 1 =>
              /\ state'.current_buffer = -1
              /\ hist'.end_of_data = 1
        /\ (hist.end_of_data >= 1 /\ TickStarts) =>
              /\ pc' = "idle"
              /\ hist'.last_return = "nothing"
              /\ cb_log' = cb_log
              /\ state' = state ]_vars

\* C19 witness: END_OF_DATA ended the first tick, and two further ticks have
\* returned at once.
C19_Witness ==
    /\ pc = "idle"
    /\ hist.end_of_data = 1
    /\ hist.ticks >= 3
    /\ hist.last_return = "nothing"
    /\ cb_log # << >>
    /\ cb_log[Len(cb_log)].type = SCE_NGS_AT9_END_OF_DATA

\* Sequence s is a prefix of sequence t.
IsPrefix(s, t) == Len(s) <= Len(t) /\ SubSeq(t, 1, Len(s)) = s

\* C20: the slices published by the calls of process that return false, put
\* one after the other, are a prefix of the sample-frames the decode steps
\* produced, in decode order: no decoded sample-frame is skipped or repeated.
C20_SlicesArePrefixOfDecoded ==
    IsPrefix(hist.published, hist.decoded)

====
